---------------------------- MODULE Spec2Model ----------------------------
(***************************************************************************)
(* Model of web/src/pages/desktop/menu/keyboard/paste.tsx: the "paste      *)
(* text" dialog of the virtual keyboard.                                   *)
(*                                                                         *)
(* A string is a sequence of Unicode code points (what Array.from(value)   *)
(* and for..of iterate over); a character is its code point.               *)
(***************************************************************************)
EXTENDS Integers, Sequences, FiniteSets, TLC

VARIABLES
    isModalOpen,        \* useState(false)            line 69
    inputValue,         \* useState('')               line 70
    language,           \* useState('en')             line 71
    status,             \* useState<'' | 'error'>('') line 72
    isLoading,          \* useState(false)            line 73
    errMsg,             \* useState('')               line 74
    isKeyboardEnable,   \* the jotai atom written through setIsKeyboardEnable
    openChangePending,  \* the Modal has an open/close transition whose
                        \* afterOpenChange callback has not run yet
    inflight,           \* payloads of the paste() calls not yet settled
    settled,            \* how the last settled paste() promise ended
    value,              \* argument of a stand-alone call of a pure function
    lang,               \* language argument of that call
    result              \* what the call returned

vars == <<isModalOpen, inputValue, language, status, isLoading, errMsg,
          isKeyboardEnable, openChangePending, inflight, settled,
          value, lang, result>>

dialogVars == <<isModalOpen, inputValue, language, status, isLoading, errMsg,
                isKeyboardEnable, openChangePending, inflight, settled>>

fnVars == <<value, lang, result>>

-----------------------------------------------------------------------------
(* Bounds *)

MaxLen == 2         \* longest text typed into the dialog
MaxInflight == 2    \* cap on simultaneously outstanding paste() calls
FnMaxLen == 1       \* longest argument of a stand-alone function call

-----------------------------------------------------------------------------
(* Characters *)

\* the characters typed into the dialog: 'Ж' (U+0416), valid for "ru" only,
\* and 'q' (U+0071), valid for "en" only
Alphabet == {1046, 113}

\* the arguments of the stand-alone calls: Basic Latin with the controls and
\* U+0080, the Cyrillic block U+0400..U+0452 and the numero sign U+2116
FnAlphabet == (0 .. 128) \cup (1024 .. 1106) \cup {8470}

languages == {"en", "ru"}

StringsOver(A, n) == UNION {[1 .. k -> A] : k \in 0 .. n}

\* String.prototype.toLowerCase on one code point (Basic Latin and the
\* Cyrillic block; every other code point used here has no lowercase form)
toLowerCase(ch) ==
    IF ch >= 65 /\ ch <= 90 THEN ch + 32
    ELSE IF ch >= 1040 /\ ch <= 1071 THEN ch + 32
    ELSE IF ch >= 1024 /\ ch <= 1039 THEN ch + 80
    ELSE ch

\* String.prototype.toUpperCase on one code point; it is only applied to the
\* values of letterMap, which are Basic Latin
toUpperCase(ch) ==
    IF ch >= 97 /\ ch <= 122 THEN ch - 32 ELSE ch

letterMap ==
    (1105 :> 96) @@ (1081 :> 113) @@ (1094 :> 119) @@ (1091 :> 101) @@ (1082 :> 114) @@
    (1077 :> 116) @@ (1085 :> 121) @@ (1075 :> 117) @@ (1096 :> 105) @@ (1097 :> 111) @@
    (1079 :> 112) @@ (1093 :> 91) @@ (1098 :> 93) @@ (1092 :> 97) @@ (1099 :> 115) @@
    (1074 :> 100) @@ (1072 :> 102) @@ (1087 :> 103) @@ (1088 :> 104) @@ (1086 :> 106) @@
    (1083 :> 107) @@ (1076 :> 108) @@ (1078 :> 59) @@ (1101 :> 39) @@ (1103 :> 122) @@
    (1095 :> 120) @@ (1089 :> 99) @@ (1084 :> 118) @@ (1080 :> 98) @@ (1090 :> 110) @@
    (1100 :> 109) @@ (1073 :> 44) @@ (1102 :> 46)

punctuationMap ==
    (34 :> 64) @@ (8470 :> 35) @@ (59 :> 36) @@ (58 :> 94) @@ (63 :> 38) @@
    (1025 :> 126) @@ (47 :> 124) @@ (46 :> 47) @@ (44 :> 63)

\* translateChar without the lowercasing of line 32: only the keys as written
\* are looked up
translateChar_NoCaseFold(ch) ==
    IF ch \in DOMAIN letterMap THEN letterMap[ch]
    ELSE IF ch \in DOMAIN punctuationMap THEN punctuationMap[ch]
    ELSE ch

\* the callback of .map(), lines 31-39
translateChar(ch) ==
    LET lower == toLowerCase(ch) IN
    IF lower \in DOMAIN letterMap
    THEN LET translated == letterMap[lower] IN
         IF ch = lower THEN translated ELSE toUpperCase(translated)
    ELSE IF ch \in DOMAIN punctuationMap THEN punctuationMap[ch]
    ELSE ch

translateRuToEnWithPunctuation(v) ==
    [i \in 1 .. Len(v) |-> translateChar(v[i])]

\* the test on one code point made by the loop body, lines 46-60
validChar(code, isRussian) ==
    IF isRussian
    THEN \/ (code >= 1040 /\ code <= 1071)
         \/ (code >= 1072 /\ code <= 1103)
         \/ code = 1025
         \/ code = 1105
         \/ (code >= 32 /\ code <= 126 /\ ~(code >= 65 /\ code <= 90)
                                       /\ ~(code >= 97 /\ code <= 122))
    ELSE code <= 127

isValidForLanguage(v, l) ==
    LET isRussian == (l = "ru") IN
    \A i \in 1 .. Len(v) : validChar(v[i], isRussian)

-----------------------------------------------------------------------------
(* The paste operation's responses *)

Codes == {0, 1}
Msgs == {"", "busy"}
Rsps == [code : Codes, msg : Msgs]

NoRsp == [code |-> 0, msg |-> ""]
NotSettled == [kind |-> "none", rsp |-> NoRsp]
NoResult == [fn |-> "none", out |-> <<>>, ok |-> TRUE]

\* the atom's initial value; jotai/keyboard.ts is not part of the sources
isKeyboardEnableAtomInit == TRUE

-----------------------------------------------------------------------------
(* The dialog *)

Init ==
    /\ isModalOpen = FALSE
    /\ inputValue = <<>>
    /\ language = "en"
    /\ status = ""
    /\ isLoading = FALSE
    /\ errMsg = ""
    /\ isKeyboardEnable = isKeyboardEnableAtomInit
    /\ openChangePending = FALSE
    /\ inflight = <<>>
    /\ settled = NotSettled
    /\ value = <<>>
    /\ lang = "en"
    /\ result = NoResult

\* the Modal's children take events while the dialog is shown, which includes
\* the transition that follows a change of its open prop
modalVisible == isModalOpen \/ openChangePending

\* setIsModalOpen(open): a changed open prop starts a transition of the Modal,
\* which ends with afterOpenChange
setIsModalOpen(open) ==
    /\ isModalOpen' = open
    /\ openChangePending' = (openChangePending \/ open # isModalOpen)

\* onClick of the trigger, line 123
TriggerClick ==
    /\ setIsModalOpen(TRUE)
    /\ UNCHANGED <<inputValue, language, status, isLoading, errMsg,
                   isKeyboardEnable, inflight, settled>>

\* Cancel that also resets the loading flag
Cancel_ResetsLoading ==
    /\ modalVisible
    /\ setIsModalOpen(FALSE)
    /\ isLoading' = FALSE
    /\ UNCHANGED <<inputValue, language, status, errMsg,
                   isKeyboardEnable, inflight, settled>>

\* onCancel of the Modal, line 134
Cancel ==
    /\ modalVisible
    /\ setIsModalOpen(FALSE)
    /\ UNCHANGED <<inputValue, language, status, isLoading, errMsg,
                   isKeyboardEnable, inflight, settled>>

\* lines 78-82; v is e.target.value
onChange(v) ==
    /\ modalVisible
    /\ status' = (IF isValidForLanguage(v, language) THEN "" ELSE "error")
    /\ inputValue' = v
    /\ UNCHANGED <<isModalOpen, language, isLoading, errMsg,
                   isKeyboardEnable, openChangePending, inflight, settled>>

\* onLanguageChange that validates against the language of the last render
onLanguageChange_StaleLanguage(l) ==
    /\ modalVisible
    /\ language' = l
    /\ status' = (IF inputValue # <<>>
                  THEN (IF isValidForLanguage(inputValue, language)
                        THEN "" ELSE "error")
                  ELSE "")
    /\ UNCHANGED <<isModalOpen, inputValue, isLoading, errMsg,
                   isKeyboardEnable, openChangePending, inflight, settled>>

\* lines 84-87
onLanguageChange(l) ==
    /\ modalVisible
    /\ language' = l
    /\ status' = (IF inputValue # <<>>
                  THEN (IF isValidForLanguage(inputValue, l) THEN "" ELSE "error")
                  ELSE "")
    /\ UNCHANGED <<isModalOpen, inputValue, isLoading, errMsg,
                   isKeyboardEnable, openChangePending, inflight, settled>>

\* the early return without its test of the loading flag
submitAccepted_NoLoadingGuard == ~(inputValue = <<>>)

\* the negation of the early return of submit, line 90
submitAccepted == ~(isLoading \/ inputValue = <<>>)

\* the payload without the translation
textToSend_Untranslated == inputValue

\* line 92
textToSend ==
    IF language = "ru" THEN translateRuToEnWithPunctuation(inputValue)
    ELSE inputValue

\* lines 89-94: a click on the submit button, up to the call of paste()
submit ==
    /\ modalVisible
    /\ IF submitAccepted
       THEN /\ Len(inflight) < MaxInflight
            /\ isLoading' = TRUE
            /\ inflight' = Append(inflight, textToSend)
            /\ UNCHANGED <<isModalOpen, inputValue, language, status, errMsg,
                           isKeyboardEnable, openChangePending, settled>>
       ELSE UNCHANGED dialogVars

\* a .then() callback that goes on after a non-zero code
thenCallback_NoReturn(rsp) ==
    /\ errMsg' = (IF rsp.code # 0 THEN rsp.msg ELSE "")
    /\ inputValue' = <<>>
    /\ status' = ""
    /\ setIsModalOpen(FALSE)

\* the .then() callback, lines 95-104
thenCallback(rsp) ==
    IF rsp.code # 0
    THEN /\ errMsg' = rsp.msg
         /\ UNCHANGED <<inputValue, status, isModalOpen, openChangePending>>
    ELSE /\ inputValue' = <<>>
         /\ status' = ""
         /\ errMsg' = ""
         /\ setIsModalOpen(FALSE)

\* the loading flag cleared by a second .then() instead of .finally()
finallyCallback_OnlyOnFulfilled(fulfilled) ==
    isLoading' = (IF fulfilled THEN FALSE ELSE isLoading)

\* the .finally() callback, lines 105-107; fulfilled tells how the promise
\* returned by .then() ended
finallyCallback(fulfilled) ==
    isLoading' = FALSE

\* the oldest outstanding paste() call resolves with rsp: the .then() callback
\* and the .finally() callback run one after the other as microtasks
PasteResolve(rsp) ==
    /\ inflight # <<>>
    /\ inflight' = Tail(inflight)
    /\ settled' = [kind |-> "fulfilled", rsp |-> rsp]
    /\ thenCallback(rsp)
    /\ finallyCallback(TRUE)
    /\ UNCHANGED <<language, isKeyboardEnable>>

\* the oldest outstanding paste() call rejects: .then() is skipped and only
\* the .finally() callback runs
PasteReject ==
    /\ inflight # <<>>
    /\ inflight' = Tail(inflight)
    /\ settled' = [kind |-> "rejected", rsp |-> NoRsp]
    /\ finallyCallback(FALSE)
    /\ UNCHANGED <<isModalOpen, inputValue, language, status, errMsg,
                   isKeyboardEnable, openChangePending>>

\* afterOpenChange without the negation
afterOpenChange_NotNegated(open) ==
    isKeyboardEnable' = open

\* lines 110-115, called by the Modal with its open prop once the transition
\* has ended; focusing the input changes nothing modelled here
afterOpenChange(open) ==
    isKeyboardEnable' = ~open

AfterOpenChange ==
    /\ openChangePending
    /\ openChangePending' = FALSE
    /\ afterOpenChange(isModalOpen)
    /\ UNCHANGED <<isModalOpen, inputValue, language, status, isLoading,
                   errMsg, inflight, settled>>

PasteSettle == (\E rsp \in Rsps : PasteResolve(rsp)) \/ PasteReject

Next ==
    \/ TriggerClick /\ UNCHANGED fnVars
    \/ Cancel /\ UNCHANGED fnVars
    \/ (\E v \in StringsOver(Alphabet, MaxLen) : onChange(v)) /\ UNCHANGED fnVars
    \/ (\E l \in languages : onLanguageChange(l)) /\ UNCHANGED fnVars
    \/ submit /\ UNCHANGED fnVars
    \/ (\E rsp \in Rsps : PasteResolve(rsp)) /\ UNCHANGED fnVars
    \/ PasteReject /\ UNCHANGED fnVars
    \/ AfterOpenChange /\ UNCHANGED fnVars

Spec == Init /\ [][Next]_vars

\* the paste operation ends every call it has accepted, and the Modal ends
\* every transition it has started
FairSpec ==
    /\ Spec
    /\ WF_vars(PasteSettle /\ UNCHANGED fnVars)
    /\ WF_vars(AfterOpenChange /\ UNCHANGED fnVars)

-----------------------------------------------------------------------------
(* Stand-alone calls of the two pure functions *)

FnInit ==
    /\ isModalOpen = FALSE
    /\ inputValue = <<>>
    /\ language = "en"
    /\ status = ""
    /\ isLoading = FALSE
    /\ errMsg = ""
    /\ isKeyboardEnable = isKeyboardEnableAtomInit
    /\ openChangePending = FALSE
    /\ inflight = <<>>
    /\ settled = NotSettled
    /\ value \in StringsOver(FnAlphabet, FnMaxLen)
    /\ lang \in languages
    /\ result = NoResult

CallTranslate ==
    /\ result' = [fn |-> "translate",
                  out |-> translateRuToEnWithPunctuation(value), ok |-> TRUE]
    /\ UNCHANGED <<value, lang>>

CallIsValid ==
    /\ result' = [fn |-> "isValid", out |-> <<>>,
                  ok |-> isValidForLanguage(value, lang)]
    /\ UNCHANGED <<value, lang>>

FnNext ==
    \/ CallTranslate /\ UNCHANGED dialogVars
    \/ CallIsValid /\ UNCHANGED dialogVars

FnSpec == FnInit /\ [][FnNext]_vars

-----------------------------------------------------------------------------
(* Steps, as seen from the two states of a transition *)

\* a paste() call is issued
Issued == Len(inflight') = Len(inflight) + 1

\* a paste() call settles
Settles == Len(inflight') < Len(inflight)

IsAscii(v) == \A i \in 1 .. Len(v) : v[i] <= 127
IsPrintableAscii(v) == \A i \in 1 .. Len(v) : v[i] >= 32 /\ v[i] <= 126

\* the characters the translator rewrites
Rewritten(ch) ==
    toLowerCase(ch) \in DOMAIN letterMap \/ ch \in DOMAIN punctuationMap

-----------------------------------------------------------------------------
(* Properties *)

\* C1: a paste call is issued only when no submission is pending and the text
\* is not empty, so at most one paste call is outstanding at any time, and
\* the loading flag is set exactly while one is.
C1_SingleOutstandingCall ==
    /\ [][Issued => ~isLoading /\ inputValue # <<>>]_vars
    /\ [](Len(inflight) <= 1 /\ (isLoading <=> Len(inflight) = 1))

\* a submission is pending and the text has been emptied meanwhile: both
\* reasons for submit() to do nothing hold
C1_Witness ==
    isLoading /\ Len(inflight) = 1 /\ inputValue = <<>> /\ isModalOpen

\* C2: a paste call that resolves with code 0 empties the text, clears the
\* status and the error message and closes the dialog; one that resolves with
\* another code sets the error message to the response's message and leaves
\* the text and the open flag as they were.
C2_ResponseHandling ==
    [][(Settles /\ settled'.kind = "fulfilled") =>
          IF settled'.rsp.code = 0
          THEN /\ inputValue' = <<>>
               /\ status' = ""
               /\ errMsg' = ""
               /\ isModalOpen' = FALSE
          ELSE /\ errMsg' = settled'.rsp.msg
               /\ inputValue' = inputValue
               /\ isModalOpen' = isModalOpen]_vars

C2_Witness ==
    /\ settled.kind = "fulfilled"
    /\ settled.rsp.code # 0
    /\ errMsg = "busy"
    /\ inputValue # <<>>
    /\ isModalOpen
    /\ ~isLoading

\* C3: a set loading flag is eventually cleared, however the paste call ends,
\* and a rejected call changes nothing but the loading flag.
C3_LoadingAlwaysCleared ==
    /\ isLoading ~> ~isLoading
    /\ [][(Settles /\ settled'.kind = "rejected") =>
             /\ isLoading' = FALSE
             /\ UNCHANGED <<inputValue, language, status, errMsg,
                            isModalOpen>>]_vars

C3_Witness ==
    /\ settled.kind = "rejected"
    /\ ~isLoading
    /\ inflight = <<>>
    /\ inputValue # <<>>
    /\ isModalOpen

\* C4 as claimed: while the loading flag stays set, the text, the language
\* and the open flag do not change.
C4_Original ==
    [][(isLoading /\ isLoading') =>
          UNCHANGED <<inputValue, language, isModalOpen>>]_vars

\* C4: a submission in flight cannot be aborted or replaced: while the
\* loading flag is set, a step either leaves the flag and the outstanding call
\* as they are, or is the completion of that call.
C4_NoAbortInFlight ==
    [][isLoading =>
          \/ (isLoading' /\ inflight' = inflight)
          \/ (~isLoading' /\ Settles)]_vars

\* text, language and open flag have all changed since the call was issued
\* ('Ж' was sent untranslated, so the language was "en")
C4_Witness ==
    /\ isLoading
    /\ inflight = << <<1046>> >>
    /\ inputValue = <<113>>
    /\ language = "ru"
    /\ ~isModalOpen

\* C5 as claimed: in every state keyboard capture is enabled exactly when the
\* dialog is closed.
C5_Original == isKeyboardEnable = ~isModalOpen

\* C5: once afterOpenChange has run for the last change of the open flag,
\* keyboard capture is enabled exactly when the dialog is closed; only
\* afterOpenChange writes the flag; and a closed dialog leads to keyboard
\* capture being enabled, unless it is opened again.
C5_KeyboardFollowsDialog ==
    /\ [](~openChangePending => isKeyboardEnable = ~isModalOpen)
    /\ [][isKeyboardEnable' # isKeyboardEnable =>
             openChangePending /\ ~openChangePending']_vars
    /\ ~isModalOpen ~> (isKeyboardEnable \/ isModalOpen)

\* the dialog was opened, which disabled capture, and has been closed again
C5_Witness ==
    /\ settled.kind = "fulfilled"
    /\ settled.rsp.code = 0
    /\ ~isModalOpen
    /\ ~openChangePending
    /\ isKeyboardEnable

\* C6: a string of punctuation-map keys is translated to the string of their
\* punctuation-map values, of equal length, and a character in neither map
\* is passed through.
C6_PunctuationTranslated ==
    result.fn = "translate" =>
       /\ (\A i \in 1 .. Len(value) : value[i] \in DOMAIN punctuationMap) =>
             /\ Len(result.out) = Len(value)
             /\ \A i \in 1 .. Len(value) :
                   result.out[i] = punctuationMap[value[i]]
       /\ \A i \in 1 .. Len(value) :
             ~Rewritten(value[i]) => result.out[i] = value[i]

\* C7: the status is "error" exactly when the current text is not valid for
\* the current language.
C7_StatusDerived ==
    /\ status \in {"", "error"}
    /\ (status = "error") <=> ~isValidForLanguage(inputValue, language)

\* a Latin letter, typed or kept under "ru"
C7_Witness ==
    /\ inputValue = <<113>>
    /\ language = "ru"
    /\ status = "error"

\* C8: the payload of a paste call is the translation of the text held at the
\* submit when the language is "ru" and the text itself otherwise, and an
\* "error" status does not keep submit() from issuing the call.
C8_Payload ==
    /\ [][Issued =>
             inflight'[Len(inflight')] =
                 (IF language = "ru"
                  THEN translateRuToEnWithPunctuation(inputValue)
                  ELSE inputValue)]_vars
    /\ []((modalVisible /\ ~isLoading /\ inputValue # <<>>) =>
             ENABLED (submit /\ Issued))

\* 'Ж' and 'q' submitted under "ru": flagged because of 'q', sent as ";q"
C8_Witness ==
    /\ inputValue = <<1046, 113>>
    /\ language = "ru"
    /\ status = "error"
    /\ inflight = << <<59, 113>> >>

\* C9: every character the translator rewrites is valid for "ru".
C9_RewrittenIsValid ==
    (result.fn = "isValid" /\ lang = "ru"
        /\ \A i \in 1 .. Len(value) : Rewritten(value[i]))
    => result.ok

\* C10: a paste call issued while the status is not "error" carries only
\* ASCII, and every character valid for "ru" is translated to a printable
\* ASCII character.
C10_ValidPayloadIsAscii ==
    /\ [][(Issued /\ status # "error") =>
             /\ IsAscii(inflight'[Len(inflight')])
             /\ language = "ru" =>
                   IsPrintableAscii(inflight'[Len(inflight')])]_vars
    /\ [](\A ch \in FnAlphabet :
             validChar(ch, TRUE) =>
                 IsPrintableAscii(translateRuToEnWithPunctuation(<<ch>>)))

\* "ЖЖ" submitted under "ru" and sent as ";;"
C10_Witness ==
    /\ inputValue = <<1046, 1046>>
    /\ language = "ru"
    /\ status = ""
    /\ inflight = << <<59, 59>> >>

=============================================================================
